---------------------------- MODULE Spec2Model ----------------------------
(***************************************************************************)
(* A model of two units of the embedchain library:                         *)
(*                                                                         *)
(*   - QueryConfig (embedchain/config/QueryConfig.py): construction of a   *)
(*     query configuration with history normalisation, default template    *)
(*     selection and placeholder validation of the prompt template;        *)
(*   - Groundedness (embedchain/eval/metrics/groundedness.py): set-up of   *)
(*     the scorer, the per-item two-call scoring pipeline, and evaluate(), *)
(*     which runs one task per item on a thread pool and averages the      *)
(*     scores of the tasks that did not raise.                             *)
(*                                                                         *)
(* Python values are tagged records so that None, lists, strings and       *)
(* booleans stay distinguishable.  Text is a sequence of tokens: a token   *)
(* is either one character ("$", "{", "}", "x", " ") or a whole word       *)
(* ("query", "context", "history"); no word can arise from pieces of       *)
(* neighbouring tokens, so matching on tokens is matching on characters.   *)
(***************************************************************************)
EXTENDS Integers, Sequences, FiniteSets, TLC

VARIABLES
    \* QueryConfig
    args,       \* arguments of the QueryConfig(...) call
    qpc,        \* "call" before QueryConfig.__init__ ran, "returned" after
    qres,       \* outcome of QueryConfig.__init__: the exception and self
    \* Groundedness
    config_api_key, \* config.api_key
    environ,    \* os.environ's entry for OPENAI_API_KEY, NoAttr if not set
    llm,        \* per item, what the two chat completion calls answer
    dataset,    \* the argument of evaluate: the ids of its items, in order
    gpc,        \* where the caller stands: new, raised, ready, submitting,
                \* collecting, done
    gexc,       \* the exception that left __init__ or evaluate, or "none"
    client,     \* self.client
    submitted,  \* how many items of dataset have been submitted to the pool
    items,      \* per item, its task: position, locals, calls made, future
    collected,  \* ids of the futures as_completed has yielded, in order
    results,    \* the local list results of evaluate
    logged,     \* ids of the items logging.error was called for
    returned    \* the value evaluate returned, NoAttr before

qvars == <<args, qpc, qres>>
gvars == <<config_api_key, environ, llm, dataset, gpc, gexc, client,
           submitted, items, collected, results, logged, returned>>
vars == <<qvars, gvars>>

-----------------------------------------------------------------------------
(* Python values *)

None == [tag |-> "None"]
List(s) == [tag |-> "list", items |-> s]
Bool(b) == [tag |-> "bool", b |-> b]
Str(s) == [tag |-> "str", s |-> s]
Num(n) == [tag |-> "num", n |-> n]
Template(t) == [tag |-> "Template", template |-> t]
NoAttr == [tag |-> "unset"]

\* Python truthiness of None and of a list, as in (not history)
Truthy(v) == IF v.tag = "list" THEN Len(v.items) > 0 ELSE v.tag # "None"

-----------------------------------------------------------------------------
(* QueryConfig.py: module-level templates and patterns *)

DEFAULT_PROMPT ==
    << " ", "context", " ", "query", " ",
       "$", "context", " ", "$", "query", " " >>

DEFAULT_PROMPT_WITH_HISTORY ==
    << " ", "context", " ", "query", " ", "history", " ",
       "$", "context", " ", "$", "history", " ", "$", "query", " " >>

DEFAULT_PROMPT_TEMPLATE == Template(DEFAULT_PROMPT)
DEFAULT_PROMPT_WITH_HISTORY_TEMPLATE == Template(DEFAULT_PROMPT_WITH_HISTORY)

\* re.search(re.compile(r"\$\{*name\}*"), text) finds a match: a "$", then
\* any number of "{", then the name (the trailing \}* matches the empty string).
ReSearch(name, text) ==
    \E i \in 1..Len(text) : \E j \in (i+1)..Len(text) :
        /\ text[i] = "$"
        /\ text[j] = name
        /\ \A k \in (i+1)..(j-1) : text[k] = "{"

query_re(text) == ReSearch("query", text)
context_re(text) == ReSearch("context", text)
history_re(text) == ReSearch("history", text)

-----------------------------------------------------------------------------
(* QueryConfig *)

NormalizeHistoryKeepsEmpty(history) ==
    IF history.tag = "None" THEN None ELSE history

\* lines 54-60
NormalizeHistory(history) ==
    IF ~Truthy(history) THEN None
    ELSE IF Len(history.items) = 0 THEN None
    ELSE history

SelectTemplateIgnoresHistory(template, history) ==
    IF template = None THEN DEFAULT_PROMPT_TEMPLATE ELSE template

\* lines 62-66
SelectTemplate(template, history) ==
    IF template = None
    THEN IF history = None THEN DEFAULT_PROMPT_TEMPLATE
         ELSE DEFAULT_PROMPT_WITH_HISTORY_TEMPLATE
    ELSE template

\* lines 68-89
Default(v, d) == IF v = None THEN d ELSE v

\* lines 104-117; history is self.history
validate_template(history, template) ==
    IF history = None
    THEN query_re(template.template) /\ context_re(template.template)
    ELSE /\ query_re(template.template)
         /\ context_re(template.template)
         /\ history_re(template.template)

\* self before __init__ assigned anything
NewSelf ==
    [history |-> NoAttr, temperature |-> NoAttr, max_tokens |-> NoAttr,
     model |-> NoAttr, top_p |-> NoAttr, template |-> NoAttr, stream |-> NoAttr]

Returned(self) == [exc |-> "none", msg |-> "", self |-> self]
Raised(exc, msg, self) == [exc |-> exc, msg |-> msg, self |-> self]

\* QueryConfig.__init__, lines 40-101: the exception raised (or none) and the
\* attributes assigned up to that point.  Messages are written without the
\* backquotes of the source.
QueryConfig(a) ==
    LET history == NormalizeHistory(a.history)
        template == SelectTemplate(a.template, history)
        s1 == [NewSelf EXCEPT !.history = history,
                              !.temperature = Default(a.temperature, Num(0)),
                              !.max_tokens = Default(a.max_tokens, Num(1000)),
                              !.model = Default(a.model, Str("gpt-3.5-turbo-0613")),
                              !.top_p = Default(a.top_p, Num(1))]
    IN  IF ~validate_template(history, template)
        THEN IF history = None
             THEN Raised("ValueError",
                         "template should have query and context keys", s1)
             ELSE Raised("ValueError",
                         "template should have query, context and history keys", s1)
        ELSE LET s2 == [s1 EXCEPT !.template = template]
             IN  IF a.stream.tag # "bool"
                 THEN Raised("ValueError", "stream should be bool", s2)
                 ELSE Returned([s2 EXCEPT !.stream = a.stream])

-----------------------------------------------------------------------------
(* Inputs of QueryConfig *)

MaxSegs == 3
MaxHist == 2

Names == {"query", "context", "history"}

\* ways of writing a name in a template
Bare(n) == << "$", n >>
Braced(n) == << "$", "{", n, "}" >>
Escaped(n) == << "$", "$", n >>
Longer(n) == << "$", n, "x" >>
DoubleBraced(n) == << "$", "{", "{", n, "}", "}" >>
Plain(n) == << n >>

Frags ==
    {Bare(n) : n \in Names} \cup {Braced(n) : n \in Names}
    \cup {Plain("query"), Escaped("query"), Longer("query"),
          DoubleBraced("query"), << " " >>}

RECURSIVE Flatten(_)
Flatten(segs) ==
    IF segs = << >> THEN << >> ELSE Head(segs) \o Flatten(Tail(segs))

Templates ==
    {Template(Flatten(segs)) :
        segs \in UNION {[1..n -> Frags] : n \in 0..MaxSegs}}

Histories ==
    {None} \cup {List([i \in 1..n |-> "h"]) : n \in 0..MaxHist}

Streams == {Bool(TRUE), Bool(FALSE), Str("true")}

GenArgs ==
    { [temperature |-> None, max_tokens |-> None, model |-> None, top_p |-> None],
      [temperature |-> Num(1), max_tokens |-> Num(50), model |-> Str("gpt-4"),
       top_p |-> Num(0)] }

QArgs(t, h, s, g) ==
    [template |-> t, history |-> h, stream |-> s,
     temperature |-> g.temperature, max_tokens |-> g.max_tokens,
     model |-> g.model, top_p |-> g.top_p]

\* the scorer is not used while a QueryConfig is constructed
GIdle ==
    /\ config_api_key = None
    /\ environ = NoAttr
    /\ llm = << >>
    /\ dataset = << >>
    /\ gpc = "unused"
    /\ gexc = "none"
    /\ client = NoAttr
    /\ submitted = 0
    /\ items = << >>
    /\ collected = << >>
    /\ results = << >>
    /\ logged = << >>
    /\ returned = NoAttr

QInit ==
    /\ \E t \in Templates \cup {None}, h \in Histories, s \in Streams,
          g \in GenArgs : args = QArgs(t, h, s, g)
    /\ qpc = "call"
    /\ qres = Returned(NewSelf)
    /\ GIdle

\* the caller constructs QueryConfig from args
QueryConfigInit ==
    /\ qpc = "call"
    /\ qres' = QueryConfig(args)
    /\ qpc' = "returned"
    /\ UNCHANGED <<args, gvars>>

QNext == QueryConfigInit

SpecQ == QInit /\ [][QNext]_vars

-----------------------------------------------------------------------------
(* Python floats (IEEE 754 binary64), as far as the scorer uses them:      *)
(* NaN, zero, and positive normal numbers.  A number is 1.f * 2^exp; man   *)
(* holds the 53 bits of 1.f, most significant first.  Results are rounded  *)
(* to nearest, ties to even.  Scores are sums and quotients of small       *)
(* non-negative integers, so neither overflow, subnormals nor signs occur. *)

MantissaBits == 53

NaN == [kind |-> "nan"]
Zero == [kind |-> "zero"]
Float(e, m) == [kind |-> "num", exp |-> e, man |-> m]

Zeros(n) == [i \in 1..n |-> 0]

RECURSIVE ToBits(_)
ToBits(k) == IF k = 0 THEN << >> ELSE ToBits(k \div 2) \o << k % 2 >>

\* the w-bit binary numeral of v, and the value of a short bit string
ToBitsN(v, w) == [i \in 1..w |-> (v \div 2^(w - i)) % 2]

RECURSIVE BitsValue(_)
BitsValue(bits) ==
    IF bits = << >> THEN 0
    ELSE 2 * BitsValue(SubSeq(bits, 1, Len(bits) - 1)) + bits[Len(bits)]

\* the carry into position i when adding a and b: some lower position
\* generates a carry and every position between propagates it
CarryInto(a, b, i) ==
    \E j \in (i + 1)..Len(a) :
        /\ a[j] + b[j] = 2
        /\ \A k \in (i + 1)..(j - 1) : a[k] + b[k] = 1

\* a + b for bit strings of equal length; the result is one bit longer
AddBits(a, b) ==
    [i \in 1..(Len(a) + 1) |->
        IF i = 1 THEN (IF CarryInto(a, b, 0) THEN 1 ELSE 0)
        ELSE (a[i - 1] + b[i - 1] + (IF CarryInto(a, b, i - 1) THEN 1 ELSE 0)) % 2]

\* bits + 1, for a bit string that is not all ones
Increment(bits) ==
    [i \in 1..Len(bits) |->
        IF \A k \in (i + 1)..Len(bits) : bits[k] = 1
        THEN 1 - bits[i] ELSE bits[i]]

\* index of the first 1 of a bit string, 0 if there is none
FirstOne(bits) ==
    IF \A i \in 1..Len(bits) : bits[i] = 0 THEN 0
    ELSE CHOOSE i \in 1..Len(bits) :
            bits[i] = 1 /\ \A j \in 1..(i - 1) : bits[j] = 0

\* The float nearest to the exact value whose binary digits are bits (the
\* first is 1 and weighs 2^e), followed by a non-zero tail if sticky.
Round(bits, e, sticky) ==
    LET L == Len(bits)
        P == MantissaBits
    IN  IF L <= P THEN Float(e, bits \o Zeros(P - L))
        ELSE LET keep == SubSeq(bits, 1, P)
                 guard == bits[P + 1]
                 rest == sticky \/ \E i \in (P + 2)..L : bits[i] = 1
                 up == guard = 1 /\ (rest \/ keep[P] = 1)
             IN  IF ~up THEN Float(e, keep)
                 ELSE IF \A i \in 1..P : keep[i] = 1
                      THEN Float(e + 1, << 1 >> \o Zeros(P - 1))
                      ELSE Float(e, Increment(keep))

\* float(k) for a small non-negative int
FromInt(k) ==
    IF k = 0 THEN Zero ELSE Round(ToBits(k), Len(ToBits(k)) - 1, FALSE)

\* x + y
FAdd(x, y) ==
    IF x.kind = "nan" \/ y.kind = "nan" THEN NaN
    ELSE IF x.kind = "zero" THEN y
    ELSE IF y.kind = "zero" THEN x
    ELSE LET hi == IF x.exp >= y.exp THEN x ELSE y
             lo == IF x.exp >= y.exp THEN y ELSE x
             d == hi.exp - lo.exp
             s == AddBits(hi.man \o Zeros(d), Zeros(d) \o lo.man)
         IN  IF s[1] = 1 THEN Round(s, hi.exp + 1, FALSE)
             ELSE Round(Tail(s), hi.exp, FALSE)

\* Binary long division by n, ChunkBits digits at a time, of a bit string
\* whose length is a multiple of ChunkBits: the quotient's digits and, in
\* the last position, the remainder.
ChunkBits == 16

RECURSIVE LongDiv(_, _, _)
LongDiv(bits, n, r) ==
    IF bits = << >> THEN << r >>
    ELSE LET t == r * 2^ChunkBits + BitsValue(SubSeq(bits, 1, ChunkBits))
         IN  ToBitsN(t \div n, ChunkBits)
                \o LongDiv(SubSeq(bits, ChunkBits + 1, Len(bits)), n, t % n)

\* digits produced after the 53 of the dividend: with them the quotient has
\* its 53 significant bits and a guard bit for every n < 2^14
ExtraBits == 59

\* x / n for a float x and an int n > 0
FDivInt(x, n) ==
    IF x.kind # "num" THEN x
    ELSE LET q == LongDiv(x.man \o Zeros(ExtraBits), n, 0)
             L == MantissaBits + ExtraBits
             p == FirstOne(SubSeq(q, 1, L))
         IN  Round(SubSeq(q, p, L), x.exp + 1 - p, q[L + 1] # 0)

\* x <= y for floats that are not NaN
FLeq(x, y) ==
    IF x.kind = "zero" THEN TRUE
    ELSE IF y.kind = "zero" THEN FALSE
    ELSE IF x.exp # y.exp THEN x.exp < y.exp
    ELSE \/ x.man = y.man
         \/ \E i \in 1..MantissaBits :
               /\ x.man[i] < y.man[i]
               /\ \A j \in 1..(i - 1) : x.man[j] = y.man[j]

-----------------------------------------------------------------------------
(* groundedness.py: the language model and its answers                     *)
(*                                                                         *)
(* A chat completion call either raises or returns a text.  A text is the  *)
(* sequence of its lines (the pieces between "\n"), so it has at least one *)
(* line; a line is a token: "" is an empty line.  What the model answers   *)
(* to the two prompts of an item is fixed per item in llm.                 *)

Raises == [tag |-> "raise"]
Text(lines) == [tag |-> "text", lines |-> lines]

\* str.strip() on a text: leading and trailing empty lines go, and the text
\* that is left has at least one (possibly empty) line
Strip(lines) ==
    LET full == {i \in 1..Len(lines) : lines[i] # ""}
    IN  IF full = {} THEN << "" >>
        ELSE SubSeq(lines,
                    CHOOSE i \in full : \A j \in full : i <= j,
                    CHOOSE i \in full : \A j \in full : i >= j)

\* an int, as a value that can stand beside NaN in a list
PyInt(v) == [kind |-> "int", v |-> v]

verdict_score_map_coerces ==
    [v \in {"1", "0", "-1"} |-> IF v = "1" THEN PyInt(1) ELSE PyInt(0)]

\* line 66
verdict_score_map ==
    [v \in {"1", "0", "-1"} |->
        IF v = "1" THEN PyInt(1) ELSE IF v = "0" THEN PyInt(0) ELSE NaN]

\* the builtin sum of a list of ints and NaN: int additions are exact,
\* anything plus NaN is NaN
RECURSIVE Sum(_)
Sum(scores) ==
    IF scores = << >> THEN PyInt(0)
    ELSE LET acc == Sum(SubSeq(scores, 1, Len(scores) - 1))
             x == scores[Len(scores)]
         IN  IF acc.kind = "nan" \/ x.kind = "nan" THEN NaN
             ELSE PyInt(acc.v + x.v)

\* x / n for x an int or NaN and n a non-zero int (true division)
TrueDivByVerdictCount(x, claim_statements, verdict_scores) ==
    IF x.kind = "nan" THEN NaN
    ELSE FDivInt(FromInt(x.v), Len(verdict_scores))

\* line 81: sum(verdict_scores) / len(claim_statements), the divisor not 0
Quotient(x, claim_statements, verdict_scores) ==
    IF x.kind = "nan" THEN NaN
    ELSE FDivInt(FromInt(x.v), Len(claim_statements))

\* np.mean of a non-empty list of floats: the elements are added from left
\* to right and the sum is divided by their number
RECURSIVE NpSum(_)
NpSum(xs) ==
    IF xs = << >> THEN Zero
    ELSE FAdd(NpSum(SubSeq(xs, 1, Len(xs) - 1)), xs[Len(xs)])

NpMean(xs) ==
    LET total == NpSum(xs)
    IN  IF total.kind = "nan" THEN NaN ELSE FDivInt(total, Len(xs))

\* the exceptions a task can end with; all derive from Exception
TaskExceptions == {"APIError", "KeyError", "ZeroDivisionError"}

CaughtOnlyAPIError(exc) == exc = "APIError"

\* line 100: except Exception
Caught(exc) == exc \in TaskExceptions

-----------------------------------------------------------------------------
(* Groundedness *)

Items == 1..Len(dataset)

Pending == [tag |-> "pending"]
Result(x) == [tag |-> "result", value |-> x]
Exception(e) == [tag |-> "exception", exc |-> e]

\* a task before it runs
NewTask ==
    [status |-> "pending", claim_statements |-> << >>,
     verdict_scores |-> << >>, ext_calls |-> 0, ver_calls |-> 0,
     future |-> Pending]

FailWithZeroScore(task, e) ==
    [task EXCEPT !.status = "failed", !.future = Result(Zero)]

\* an exception leaves _compute_score and is stored in the task's future
Fail(task, e) == [task EXCEPT !.status = "failed", !.future = Exception(e)]

\* line 23: self.config.api_key or os.environ["OPENAI_API_KEY"]; the
\* subscript raises KeyError when the variable is not set
ApiKey(cfg, env) ==
    IF cfg # None /\ cfg.s # "" THEN [exc |-> "none", key |-> cfg]
    ELSE IF env = NoAttr THEN [exc |-> "KeyError", key |-> None]
    ELSE [exc |-> "none", key |-> env]

\* Groundedness.__init__, lines 21-26
GroundednessInit ==
    /\ gpc = "new"
    /\ LET k == ApiKey(config_api_key, environ)
       IN  IF k.exc # "none"
           THEN gpc' = "raised" /\ gexc' = k.exc /\ UNCHANGED client
           ELSE IF k.key = None \/ k.key.s = ""
           THEN gpc' = "raised" /\ gexc' = "ValueError" /\ UNCHANGED client
           ELSE /\ gpc' = "ready"
                /\ client' = [tag |-> "OpenAI", api_key |-> k.key]
                /\ UNCHANGED gexc
    /\ UNCHANGED <<config_api_key, environ, llm, dataset, submitted, items,
                   collected, results, logged, returned, qvars>>

\* evaluate is called: results = [] and the executor is entered, lines 87-89
Evaluate ==
    /\ gpc = "ready"
    /\ gpc' = "submitting"
    /\ results' = << >>
    /\ UNCHANGED <<config_api_key, environ, llm, dataset, gexc, client,
                   submitted, items, collected, logged, returned, qvars>>

\* line 90: the next item of the dataset is submitted; its task may run
\* from now on (the pool's default size, min(32, cpus + 4), is above the
\* number of items modelled, so no task waits for a worker).  After the
\* last one the caller waits in as_completed.
Submit ==
    /\ gpc = "submitting"
    /\ IF submitted < Len(dataset)
       THEN submitted' = submitted + 1 /\ UNCHANGED gpc
       ELSE gpc' = "collecting" /\ UNCHANGED submitted
    /\ UNCHANGED <<config_api_key, environ, llm, dataset, gexc, client,
                   items, collected, results, logged, returned, qvars>>

\* lines 76-77 in the task of item i: the first chat completion call and
\* the split of its answer into claim statements, lines 39-45
GetClaimStatements(i) ==
    /\ i <= submitted
    /\ items[i].status = "pending"
    /\ LET t == [items[i] EXCEPT !.ext_calls = @ + 1]
           r == llm[i].ext
       IN  items' = [items EXCEPT ![i] =
             IF r = Raises THEN Fail(t, "APIError")
             ELSE [t EXCEPT !.status = "claims_extracted",
                            !.claim_statements =
                                SelectSeq(Strip(r.lines), LAMBDA st : st # "")]]
    /\ UNCHANGED <<config_api_key, environ, llm, dataset, gpc, gexc, client,
                   submitted, collected, results, logged, returned, qvars>>

\* lines 79-80 in the task of item i: the second chat completion call and
\* the mapping of its lines to verdict scores, lines 60-70
GetClaimVerdictScores(i) ==
    /\ items[i].status = "claims_extracted"
    /\ LET t == [items[i] EXCEPT !.ver_calls = @ + 1]
           r == llm[i].ver
       IN  items' = [items EXCEPT ![i] =
             IF r = Raises THEN Fail(t, "APIError")
             ELSE LET claim_verdicts == Strip(r.lines)
                  IN  IF \E k \in 1..Len(claim_verdicts) :
                            claim_verdicts[k] \notin DOMAIN verdict_score_map
                      THEN Fail(t, "KeyError")
                      ELSE [t EXCEPT !.status = "verdicts_scored",
                                     !.verdict_scores =
                                         [k \in 1..Len(claim_verdicts) |->
                                             verdict_score_map[claim_verdicts[k]]]]]
    /\ UNCHANGED <<config_api_key, environ, llm, dataset, gpc, gexc, client,
                   submitted, collected, results, logged, returned, qvars>>

\* line 81 in the task of item i: the division, and the end of the task
ComputeScore(i) ==
    /\ items[i].status = "verdicts_scored"
    /\ LET t == items[i]
       IN  items' = [items EXCEPT ![i] =
             IF Len(t.claim_statements) = 0 THEN Fail(t, "ZeroDivisionError")
             ELSE [t EXCEPT !.status = "scored",
                            !.future = Result(Quotient(Sum(t.verdict_scores),
                                                       t.claim_statements,
                                                       t.verdict_scores))]]
    /\ UNCHANGED <<config_api_key, environ, llm, dataset, gpc, gexc, client,
                   submitted, collected, results, logged, returned, qvars>>

\* lines 91-101: as_completed yields a finished future that it has not
\* yielded before; its score is appended, or its exception is logged
Collect(i) ==
    /\ gpc = "collecting"
    /\ items[i].future # Pending
    /\ \A k \in 1..Len(collected) : collected[k] # i
    /\ collected' = Append(collected, i)
    /\ LET f == items[i].future
       IN  IF f.tag = "result"
           THEN /\ results' = Append(results, f.value)
                /\ UNCHANGED <<logged, gpc, gexc>>
           ELSE IF Caught(f.exc)
           THEN /\ logged' = Append(logged, i)
                /\ UNCHANGED <<results, gpc, gexc>>
           ELSE /\ gpc' = "raised"
                /\ gexc' = f.exc
                /\ UNCHANGED <<results, logged>>
    /\ UNCHANGED <<config_api_key, environ, llm, dataset, client,
                   submitted, items, returned, qvars>>

ReturnAfterFirst ==
    /\ gpc = "collecting"
    /\ Len(collected) >= 1 \/ Len(dataset) = 0
    /\ returned' = IF results # << >> THEN NpMean(results) ELSE Zero
    /\ gpc' = "done"
    /\ UNCHANGED <<config_api_key, environ, llm, dataset, gexc, client,
                   submitted, items, collected, results, logged, qvars>>

\* line 103, once as_completed has yielded every future
Return ==
    /\ gpc = "collecting"
    /\ Len(collected) = Len(dataset)
    /\ returned' = IF results # << >> THEN NpMean(results) ELSE Zero
    /\ gpc' = "done"
    /\ UNCHANGED <<config_api_key, environ, llm, dataset, gexc, client,
                   submitted, items, collected, results, logged, qvars>>

GNext ==
    \/ GroundednessInit
    \/ Evaluate
    \/ Submit
    \/ \E i \in Items : GetClaimStatements(i)
    \/ \E i \in Items : GetClaimVerdictScores(i)
    \/ \E i \in Items : ComputeScore(i)
    \/ \E i \in Items : Collect(i)
    \/ Return

-----------------------------------------------------------------------------
(* Inputs of Groundedness *)

MaxLines == 3
MaxItems == 3

ExtLines == {"claim", ""}
VerLines == {"1", "0", "-1", "", "unsure"}

TextsOver(alphabet) ==
    {Text(l) : l \in UNION {[1..n -> alphabet] : n \in 1..MaxLines}}

\* every answer to each of the two calls, for the scoring of one item
ExtAnswers == TextsOver(ExtLines) \cup {Raises}
VerAnswers == TextsOver(VerLines) \cup {Raises}

\* answers of the kinds that matter when several items are aggregated:
\* scores 1 and 1/3, a NaN score, and tasks that raise
SomeAnswers ==
    << [ext |-> Text(<< "claim" >>), ver |-> Text(<< "1" >>)],
       [ext |-> Text(<< "claim", "claim", "claim" >>),
        ver |-> Text(<< "1", "0", "0" >>)],
       [ext |-> Text(<< "claim" >>), ver |-> Text(<< "-1" >>)],
       [ext |-> Text(<< "claim" >>), ver |-> Text(<< "unsure" >>)],
       [ext |-> Raises, ver |-> Raises] >>

\* Datasets of up to MaxItems items with answers among SomeAnswers.  The
\* tasks complete in any order, so a dataset and its permutations behave
\* alike up to the numbering of the items: one order of each is taken.
SomeDatasets ==
    {[i \in DOMAIN f |-> SomeAnswers[f[i]]] :
        f \in {g \in UNION {[1..n -> 1..Len(SomeAnswers)] : n \in 0..MaxItems} :
                  \A i \in DOMAIN g : \A j \in DOMAIN g : i <= j => g[i] <= g[j]}}

ApiKeys == {None, Str(""), Str("sk-config")}
EnvKeys == {NoAttr, Str(""), Str("sk-env")}

QIdle ==
    /\ args = NoAttr
    /\ qpc = "unused"
    /\ qres = Returned(NewSelf)

\* Three families of inputs: every way of giving the API key, with one
\* item; every pair of answers, for one item; datasets of several items.
GInit ==
    /\ \/ /\ config_api_key \in ApiKeys
          /\ environ \in EnvKeys
          /\ \E a \in 1..Len(SomeAnswers) : llm = << SomeAnswers[a] >>
       \/ /\ config_api_key = Str("sk-config")
          /\ environ = NoAttr
          /\ \E e \in ExtAnswers, v \in VerAnswers :
                llm = << [ext |-> e, ver |-> v] >>
       \/ /\ config_api_key = Str("sk-config")
          /\ environ = NoAttr
          /\ llm \in SomeDatasets
    /\ dataset = [i \in DOMAIN llm |-> i]
    /\ gpc = "new"
    /\ gexc = "none"
    /\ client = NoAttr
    /\ submitted = 0
    /\ items = [i \in DOMAIN llm |-> NewTask]
    /\ collected = << >>
    /\ results = << >>
    /\ logged = << >>
    /\ returned = NoAttr
    /\ QIdle

SpecG == GInit /\ [][GNext]_vars

-----------------------------------------------------------------------------
(* Placeholders of a template, as the claims about QueryConfig speak of    *)
(* them: the substitution slots string.Template finds, scanning left to    *)
(* right: "$$" is an escaped dollar, "$" followed by an identifier is a    *)
(* bare slot named by the whole identifier, "${" identifier "}" is a       *)
(* braced slot, and any other "$" names nothing.                           *)

IsIdent(tok) == tok \in {"query", "context", "history", "x"}

\* index of the last token of the identifier that starts at i
RECURSIVE IdentEnd(_, _)
IdentEnd(text, i) ==
    IF i + 1 <= Len(text) /\ IsIdent(text[i + 1])
    THEN IdentEnd(text, i + 1) ELSE i

RECURSIVE Placeholders(_, _)
Placeholders(text, i) ==
    IF i > Len(text) THEN {}
    ELSE IF text[i] # "$" THEN Placeholders(text, i + 1)
    ELSE IF i + 1 <= Len(text) /\ text[i + 1] = "$"
         THEN Placeholders(text, i + 2)
    ELSE IF i + 1 <= Len(text) /\ IsIdent(text[i + 1])
         THEN LET j == IdentEnd(text, i + 1)
              IN  {SubSeq(text, i + 1, j)} \cup Placeholders(text, j + 1)
    ELSE IF /\ i + 2 <= Len(text)
            /\ text[i + 1] = "{"
            /\ IsIdent(text[i + 2])
            /\ IdentEnd(text, i + 2) + 1 <= Len(text)
            /\ text[IdentEnd(text, i + 2) + 1] = "}"
         THEN LET j == IdentEnd(text, i + 2)
              IN  {SubSeq(text, i + 2, j)} \cup Placeholders(text, j + 2)
    ELSE Placeholders(text, i + 1)

HasPlaceholder(template, name) == << name >> \in Placeholders(template.template, 1)

\* the placeholders a template must have, given the history argument
HasRequiredPlaceholders(template, history) ==
    /\ HasPlaceholder(template, "query")
    /\ HasPlaceholder(template, "context")
    /\ Truthy(history) => HasPlaceholder(template, "history")

TemplateErrors ==
    {"template should have query and context keys",
     "template should have query, context and history keys"}

-----------------------------------------------------------------------------
(* Claims about QueryConfig, checked under SpecQ *)

\* C1: a given template is accepted (stored in the configuration) if and only
\* if it has the query and context placeholders, and the history placeholder
\* when history is present; every other template makes construction raise
\* ValueError with no template stored.
C1_AcceptsIffPlaceholders ==
    (qpc = "returned" /\ args.template # None) =>
        /\ (qres.self.template = args.template)
              <=> HasRequiredPlaceholders(args.template, args.history)
        /\ ~HasRequiredPlaceholders(args.template, args.history) =>
              /\ qres.exc = "ValueError"
              /\ qres.msg \in TemplateErrors
              /\ qres.self.template = NoAttr

\* C2: without a template argument the stored template is the no-history
\* default when the normalised history is None and the history-aware default
\* when history is a non-empty list, and validation passes in both cases.
C2_DefaultTemplate ==
    (qpc = "returned" /\ args.template = None) =>
        /\ qres.msg \notin TemplateErrors
        /\ qres.self.history = None =>
              qres.self.template = DEFAULT_PROMPT_TEMPLATE
        /\ Truthy(args.history) =>
              qres.self.template = DEFAULT_PROMPT_WITH_HISTORY_TEMPLATE

C2_Witness ==
    /\ qpc = "returned"
    /\ args.template = None
    /\ Truthy(args.history)
    /\ qres.exc = "none"
    /\ qres.self.template = DEFAULT_PROMPT_WITH_HISTORY_TEMPLATE

\* C3: history=None and history=[] give the same outcome, with the history
\* attribute None; a non-empty history is kept as given.
C3_HistoryNormalization ==
    qpc = "returned" =>
        /\ args.history \in {None, List(<< >>)} =>
              /\ qres.self.history = None
              /\ qres = QueryConfig([args EXCEPT !.history = None])
              /\ qres = QueryConfig([args EXCEPT !.history = List(<< >>)])
        /\ Truthy(args.history) => qres.self.history = args.history

C3_Witness ==
    /\ qpc = "returned"
    /\ args.history = List(<< >>)
    /\ args.template # None
    /\ qres.exc = "none"
    /\ qres.self.history = None

-----------------------------------------------------------------------------
(* What the answers of the language model determine, read off the text of  *)
(* the answers alone.                                                      *)

One == Float(0, << 1 >> \o Zeros(MantissaBits - 1))
Half == Float(-1, << 1 >> \o Zeros(MantissaBits - 1))
Third == Float(-2, [k \in 1..MantissaBits |-> k % 2])

NonEmptyLines(text) == {k \in 1..Len(text.lines) : text.lines[k] # ""}
LinesEqual(text, v) == {k \in 1..Len(text.lines) : text.lines[k] = v}

\* the verdict lines: those from the first to the last non-empty line
VerdictLines(text) ==
    {k \in 1..Len(text.lines) :
        /\ \E j \in NonEmptyLines(text) : j <= k
        /\ \E j \in NonEmptyLines(text) : k <= j}

\* whether the task of an item with answers a ends without raising
Succeeds(a) ==
    /\ a.ext # Raises
    /\ a.ver # Raises
    /\ NonEmptyLines(a.ext) # {}
    /\ NonEmptyLines(a.ver) # {}
    /\ \A k \in VerdictLines(a.ver) : a.ver.lines[k] \in {"1", "0", "-1"}

\* and the score it then ends with
ScoreOf(a) ==
    IF LinesEqual(a.ver, "-1") # {} THEN NaN
    ELSE FDivInt(FromInt(Cardinality(LinesEqual(a.ver, "1"))),
                 Cardinality(NonEmptyLines(a.ext)))

Terminal(i) == items[i].status \in {"scored", "failed"}
IsCollected(i) == \E k \in 1..Len(collected) : collected[k] = i

\* the scores of the items of a sequence of ids whose tasks succeed
SucceededScores(ids) ==
    LET ok == SelectSeq(ids, LAMBDA i : Succeeds(llm[i]))
    IN  [k \in 1..Len(ok) |-> ScoreOf(llm[ok[k]])]

MeanOrZero(xs) == IF xs = << >> THEN Zero ELSE NpMean(xs)

-----------------------------------------------------------------------------
(* Claims about Groundedness, checked under SpecG *)

\* C4: the score of an item is the sum of its verdict scores divided by the
\* number of claim statements (the non-empty lines of the extraction
\* answer), not by the number of verdicts; "claim1\nclaim2" with "1\n0"
\* scores 0.5.
C4_ScoreDividesByClaims ==
    \A i \in Items :
        items[i].status = "scored" =>
            /\ items[i].future = Result(ScoreOf(llm[i]))
            /\ Len(items[i].claim_statements)
                  = Cardinality(NonEmptyLines(llm[i].ext))
            /\ (/\ llm[i].ext = Text(<< "claim", "claim" >>)
                /\ llm[i].ver = Text(<< "1", "0" >>))
                  => items[i].future = Result(Half)
            /\ (/\ llm[i].ext = Text(<< "claim", "claim" >>)
                /\ llm[i].ver = Text(<< "1" >>))
                  => items[i].future = Result(Half)
            /\ (/\ llm[i].ext = Text(<< "claim", "claim", "claim" >>)
                /\ llm[i].ver = Text(<< "1", "0", "0" >>))
                  => items[i].future = Result(Third)

C4_Witness ==
    \E i \in Items :
        /\ llm[i].ext = Text(<< "claim", "claim" >>)
        /\ llm[i].ver = Text(<< "1", "0" >>)
        /\ items[i].status = "scored"
        /\ items[i].future = Result(Half)

\* C5: evaluate returns the mean of exactly the scores of the items whose
\* task did not raise, 0.0 when there is none; a task's exception is caught
\* and logged where its future is collected and never leaves evaluate.
C5_MeanOfSucceeded ==
    /\ gpc = "raised" => client = NoAttr
    /\ gpc \in {"submitting", "collecting", "done"} => gexc = "none"
    /\ \A k \in 1..Len(logged) : ~Succeeds(llm[logged[k]])
    /\ gpc = "done" =>
          /\ returned = MeanOrZero(SucceededScores(collected))
          /\ Len(results) = Cardinality({i \in Items : Succeeds(llm[i])})
          /\ Len(logged) = Cardinality({i \in Items : ~Succeeds(llm[i])})
          /\ (\A i \in Items : ~Succeeds(llm[i])) => returned = Zero

C5_Witness ==
    /\ gpc = "done"
    /\ Len(dataset) = 3
    /\ Len(logged) = 1
    /\ llm[logged[1]].ext = Raises
    /\ Len(results) = 2
    /\ returned = NpMean(results)
    /\ returned # Zero

\* C6: every score produced for an item lies between 0 and 1 (stated here
\* for the scores that are numbers).
C6_ScoreInUnitInterval ==
    \A i \in Items :
        (items[i].status = "scored" /\ items[i].future.value # NaN) =>
            /\ FLeq(Zero, items[i].future.value)
            /\ FLeq(items[i].future.value, One)

C8_MissingKeyRaisesValueError ==
    gpc # "new" =>
        IF config_api_key # None /\ config_api_key.s # ""
        THEN client = [tag |-> "OpenAI", api_key |-> config_api_key]
        ELSE IF environ # NoAttr /\ environ.s # ""
        THEN client = [tag |-> "OpenAI", api_key |-> environ]
        ELSE gpc = "raised" /\ gexc = "ValueError" /\ client = NoAttr

\* C9: an item moves pending -> claims_extracted -> verdicts_scored ->
\* scored, or to failed; the verification call is made only from
\* claims_extracted, each call is made at most once, pending is left for
\* failed only in a step that made the extraction call, scored and failed
\* are final, and collecting a failed item adds nothing to results.
C9_ItemStateMachine ==
    [][\A i \in Items :
        LET t == items[i]
            u == items'[i]
        IN  /\ t.status # u.status =>
                << t.status, u.status >> \in
                    { << "pending", "claims_extracted" >>,
                      << "pending", "failed" >>,
                      << "claims_extracted", "verdicts_scored" >>,
                      << "claims_extracted", "failed" >>,
                      << "verdicts_scored", "scored" >>,
                      << "verdicts_scored", "failed" >> }
            /\ u.ver_calls # t.ver_calls =>
                  /\ t.status = "claims_extracted"
                  /\ t.ext_calls = 1
            /\ u.ext_calls # t.ext_calls => t.status = "pending"
            /\ u.ext_calls <= 1 /\ u.ver_calls <= 1
            /\ (t.status = "pending" /\ u.status = "failed") =>
                  u.ext_calls = t.ext_calls + 1
            /\ t.status \in {"scored", "failed"} => u = t
            /\ (u.status = "scored") <=> (u.future.tag = "result")
            /\ (t.status = "failed" /\ collected' = Append(collected, i)) =>
                  results' = results
      ]_vars

C9_Witness ==
    \E i \in Items :
        /\ items[i].status = "failed"
        /\ items[i].ext_calls = 1
        /\ items[i].ver_calls = 1
        /\ IsCollected(i)
        /\ gpc = "done"
        /\ \E j \in Items : items[j].status = "scored"

\* C10 as claimed: the value evaluate returns is fixed by the outcomes of
\* the items, whatever the order in which the tasks complete: it is the
\* value obtained when they complete in the order of the dataset.
C10_SameValueInEveryOrder ==
    gpc = "done" => returned = MeanOrZero(SucceededScores(dataset))

\* C10 as amended: one task per item; every future is collected once, after
\* it finished; evaluate returns after all of them; an item's outcome is
\* fixed by its own answers alone; results holds the scores of the items
\* that succeeded, in the order of collection, and the value returned is
\* their mean added up in that order (so it is fixed up to the rounding of
\* the float additions, not bit for bit).
C10_SameScoresInEveryOrder ==
    /\ DOMAIN items = 1..Len(dataset)
    /\ submitted <= Len(dataset)
    /\ gpc \in {"collecting", "done"} => submitted = Len(dataset)
    /\ \A k \in 1..Len(collected) :
          /\ collected[k] \in Items
          /\ Terminal(collected[k])
          /\ \A j \in 1..Len(collected) : collected[j] = collected[k] => j = k
    /\ \A i \in Items :
          Terminal(i) =>
              items[i].future = IF Succeeds(llm[i]) THEN Result(ScoreOf(llm[i]))
                                ELSE Exception(items[i].future.exc)
    /\ results = SucceededScores(collected)
    /\ gpc = "done" =>
          /\ \A i \in Items : Terminal(i) /\ IsCollected(i)
          /\ returned = MeanOrZero(results)

C10_Witness ==
    /\ gpc = "done"
    /\ Len(dataset) = 3
    /\ collected = << 3, 1, 2 >>
    /\ results = SucceededScores(collected)
    /\ Len(results) = 3
    /\ returned = MeanOrZero(results)
    /\ returned # MeanOrZero(SucceededScores(dataset))

=============================================================================
